---------------------------- MODULE Spec2Model ----------------------------
(***************************************************************************)
(* Storage layer of the presentation editor (src-tauri/src/lib.rs): the    *)
(* presentation repository (list / read / save / delete of JSON documents) *)
(* and the image asset repository (import with collision resolution, list, *)
(* delete), all acting on a filesystem that is the only state.             *)
(*                                                                         *)
(* A file name is a sequence of one-character strings, a path a sequence   *)
(* of file names (its components, relative to the working directory), a    *)
(* file's content a sequence of bytes, a text a sequence of code points.   *)
(***************************************************************************)
EXTENDS Integers, Sequences, FiniteSets, TLC

VARIABLES fs, last, prev, steps, limit, hist, procs

vars == <<fs, last, prev, steps, limit, hist, procs>>

(***************************************************************************)
(* Bounds of the model.                                                    *)
(***************************************************************************)
\* number of commands in one sequential run of the whole program
MaxSteps == 2
\* number of image commands in one sequential run
MaxImageSteps == 3
\* number of presentation commands in one sequential run
MaxDocSteps == 3

(***************************************************************************)
(* Strings and paths (std::path as the handlers use it).                   *)
(***************************************************************************)
Last(s) == s[Len(s)]

Front(s) == SubSeq(s, 1, Len(s) - 1)

Range(s) == {s[i] : i \in 1..Len(s)}

DotDot == <<".", ".">>

\* PathBuf::join with a relative single-component name
Join(p, name) == Append(p, name)

\* Path::parent: None for the empty path
HasParent(p) == p # <<>>

Parent(p) == Front(p)

\* Path::file_name: None for the empty path and for a path ending in ".."
HasFileName(p) == p # <<>> /\ Last(p) # DotDot

FileName(p) == Last(p)

\* the positions of '.' in a name
DotPositions(name) == {i \in 1..Len(name) : name[i] = "."}

LastDot(name) == CHOOSE i \in DotPositions(name) : \A j \in DotPositions(name) : j <= i

\* Path::file_stem: the name up to its last '.', the whole name when it has
\* no '.' or only a leading one
FileStem(name) ==
    IF DotPositions(name) = {} \/ LastDot(name) = 1
    THEN name
    ELSE SubSeq(name, 1, LastDot(name) - 1)

\* Path::extension is Some(..): the name has a '.' that is not its first character
HasExtension(name) == DotPositions(name) # {} /\ LastDot(name) # 1

\* Path::extension(..).unwrap_or_default(): what follows the last '.'
Extension(name) ==
    IF HasExtension(name)
    THEN SubSeq(name, LastDot(name) + 1, Len(name))
    ELSE <<>>

\* str::ends_with
EndsWith(name, suffix) ==
    /\ Len(name) >= Len(suffix)
    /\ SubSeq(name, Len(name) - Len(suffix) + 1, Len(name)) = suffix

UpperLetters == <<"B", "E", "F", "G", "I", "J", "M", "N", "P", "S", "V", "W">>

LowerLetters == <<"b", "e", "f", "g", "i", "j", "m", "n", "p", "s", "v", "w">>

\* char::to_lowercase on the letters the model uses
LowerChar(c) ==
    IF \E i \in 1..Len(UpperLetters) : UpperLetters[i] = c
    THEN LowerLetters[CHOOSE i \in 1..Len(UpperLetters) : UpperLetters[i] = c]
    ELSE c

\* str::to_lowercase
ToLowercase(s) == [i \in 1..Len(s) |-> LowerChar(s[i])]

Digits == <<"0", "1", "2", "3", "4", "5", "6", "7", "8", "9">>

RECURSIVE FormatInt(_)
\* format!("{}", counter) for counter >= 0: the decimal digits
FormatInt(n) ==
    IF n < 10
    THEN <<Digits[n + 1]>>
    ELSE FormatInt(n \div 10) \o <<Digits[(n % 10) + 1]>>

(***************************************************************************)
(* Text and bytes: String::as_bytes and String::from_utf8 (UTF-8, one to   *)
(* three bytes per code point).                                            *)
(***************************************************************************)
\* one byte for every code point below 256
EncodeCharLatin1(cp) ==
    IF cp < 256 THEN <<cp>>
    ELSE <<224 + (cp \div 4096), 128 + ((cp \div 64) % 64), 128 + (cp % 64)>>

\* char::encode_utf8
EncodeChar(cp) ==
    IF cp < 128 THEN <<cp>>
    ELSE IF cp < 2048 THEN <<192 + (cp \div 64), 128 + (cp % 64)>>
    ELSE <<224 + (cp \div 4096), 128 + ((cp \div 64) % 64), 128 + (cp % 64)>>

RECURSIVE Utf8Encode(_)
Utf8Encode(text) ==
    IF text = <<>> THEN <<>>
    ELSE EncodeChar(Head(text)) \o Utf8Encode(Tail(text))

IsCont(b) == b >= 128 /\ b <= 191

\* the number of bytes of the well-formed sequence that starts bytes, 0 if none
LeadLen(bytes) ==
    IF bytes[1] < 128 THEN 1
    ELSE IF /\ bytes[1] >= 194 /\ bytes[1] <= 223
            /\ Len(bytes) >= 2 /\ IsCont(bytes[2]) THEN 2
    ELSE IF /\ bytes[1] >= 224 /\ bytes[1] <= 239
            /\ Len(bytes) >= 3 /\ IsCont(bytes[2]) /\ IsCont(bytes[3])
            /\ (bytes[1] = 224 => bytes[2] >= 160) THEN 3
    ELSE 0

DecodeChar(bytes, n) ==
    IF n = 1 THEN bytes[1]
    ELSE IF n = 2 THEN (bytes[1] - 192) * 64 + (bytes[2] - 128)
    ELSE (bytes[1] - 224) * 4096 + (bytes[2] - 128) * 64 + (bytes[3] - 128)

RECURSIVE ValidUtf8(_)
ValidUtf8(bytes) ==
    \/ bytes = <<>>
    \/ /\ LeadLen(bytes) > 0
       /\ ValidUtf8(SubSeq(bytes, LeadLen(bytes) + 1, Len(bytes)))

RECURSIVE Utf8Decode(_)
\* the text of a valid byte sequence
Utf8Decode(bytes) ==
    IF bytes = <<>> THEN <<>>
    ELSE <<DecodeChar(bytes, LeadLen(bytes))>>
            \o Utf8Decode(SubSeq(bytes, LeadLen(bytes) + 1, Len(bytes)))


(***************************************************************************)
(* The filesystem: a function from the paths that exist to their nodes.    *)
(* The working directory (the empty component sequence) always exists as a *)
(* directory but is not named by any path: Path::new("").exists() is       *)
(* false.  There are no symbolic links.                                    *)
(***************************************************************************)
DirNode == [kind |-> "dir", bytes |-> <<>>]

FileNode(bytes) == [kind |-> "file", bytes |-> bytes]

\* Path::exists
Exists(f, p) == p \in DOMAIN f

\* Path::is_file
IsFile(f, p) == p \in DOMAIN f /\ f[p].kind = "file"

\* Path::is_dir
IsDir(f, p) == p \in DOMAIN f /\ f[p].kind = "dir"

Prefixes(p) == {SubSeq(p, 1, k) : k \in 1..Len(p)}

\* the error a system call reports when it cannot walk to the parent of p
WalkErr(f, p) ==
    IF \E q \in Prefixes(Parent(p)) : IsFile(f, q) THEN "NotADirectory"
    ELSE IF \E q \in Prefixes(Parent(p)) : ~Exists(f, q) THEN "NotFound"
    ELSE "none"

\* fs::create_dir_all: Ok(()) for the empty path and for an existing
\* directory; an error when the path or one of its ancestors is a regular file
CreateDirAllErr(f, p) ==
    IF p = <<>> THEN "none"
    ELSE IF \E q \in Prefixes(Parent(p)) : IsFile(f, q) THEN "NotADirectory"
    ELSE IF IsFile(f, p) THEN "AlreadyExists"
    ELSE "none"

CreateDirAllFs(f, p) ==
    IF CreateDirAllErr(f, p) # "none" THEN f
    ELSE [q \in DOMAIN f \cup Prefixes(p) |-> IF q \in DOMAIN f THEN f[q] ELSE DirNode]

\* fs::read_dir
ReadDirErr(f, p) ==
    IF p = <<>> THEN "NotFound"
    ELSE IF WalkErr(f, p) # "none" THEN WalkErr(f, p)
    ELSE IF ~Exists(f, p) THEN "NotFound"
    ELSE IF IsFile(f, p) THEN "NotADirectory"
    ELSE "none"

\* the names of the direct children of directory p
Children(f, p) == {Last(q) : q \in {r \in DOMAIN f : Len(r) = Len(p) + 1 /\ Parent(r) = p}}

RECURSIVE Orders(_)
\* the enumerations of a finite set: read_dir yields the children in an
\* order the operating system chooses
Orders(S) ==
    IF S = {} THEN {<<>>}
    ELSE UNION {{<<x>> \o o : o \in Orders(S \ {x})} : x \in S}

\* the file opened with create_new: an existing path is an error
CreateNewErr(f, p) ==
    IF p = <<>> THEN "NotFound"
    ELSE IF WalkErr(f, p) # "none" THEN WalkErr(f, p)
    ELSE IF Exists(f, p) THEN "AlreadyExists"
    ELSE "none"

\* File::create (write, create, truncate): the error, and the filesystem
\* with an empty regular file at p
CreateErr(f, p) ==
    IF p = <<>> THEN "NotFound"
    ELSE IF WalkErr(f, p) # "none" THEN WalkErr(f, p)
    ELSE IF IsDir(f, p) THEN "IsADirectory"
    ELSE "none"

CreateFs(f, p) == [q \in DOMAIN f \cup {p} |-> IF q = p THEN FileNode(<<>>) ELSE f[q]]

\* write_all through a handle opened at offset 0: the bytes replace the
\* start of the file's content and what lies beyond them stays
Overlay(old, bytes) ==
    IF Len(old) <= Len(bytes) THEN bytes
    ELSE bytes \o SubSeq(old, Len(bytes) + 1, Len(old))

WriteAllFs(f, p, bytes) ==
    IF IsFile(f, p)
    THEN [f EXCEPT ![p] = FileNode(Overlay(f[p].bytes, bytes))]
    ELSE f

\* fs::write: File::create, then write_all
WriteErr(f, p) == CreateErr(f, p)

\* the file opened without truncating it
WriteFsNoTruncate(f, p, bytes) ==
    WriteAllFs(IF IsFile(f, p) THEN f ELSE CreateFs(f, p), p, bytes)

WriteFs(f, p, bytes) == WriteAllFs(CreateFs(f, p), p, bytes)

\* fs::read_to_string
ReadErr(f, p) ==
    IF p = <<>> THEN "NotFound"
    ELSE IF WalkErr(f, p) # "none" THEN WalkErr(f, p)
    ELSE IF ~Exists(f, p) THEN "NotFound"
    ELSE IF IsDir(f, p) THEN "IsADirectory"
    ELSE IF ~ValidUtf8(f[p].bytes) THEN "InvalidData"
    ELSE "none"

\* fs::remove_file that takes a missing file for removed
RemoveFileErrIgnoreMissing(f, p) ==
    IF p = <<>> THEN "none"
    ELSE IF WalkErr(f, p) # "none" THEN WalkErr(f, p)
    ELSE IF ~Exists(f, p) THEN "none"
    ELSE IF IsDir(f, p) THEN "IsADirectory"
    ELSE "none"

\* fs::remove_file
RemoveFileErr(f, p) ==
    IF p = <<>> THEN "NotFound"
    ELSE IF WalkErr(f, p) # "none" THEN WalkErr(f, p)
    ELSE IF ~Exists(f, p) THEN "NotFound"
    ELSE IF IsDir(f, p) THEN "IsADirectory"
    ELSE "none"

RemoveFileFs(f, p) == [q \in DOMAIN f \ {p} |-> f[q]]

\* fs::copy, opening the source: it must be a regular file
CopyOpenFromErr(f, src) ==
    IF src = <<>> THEN "NotFound"
    ELSE IF WalkErr(f, src) # "none" THEN WalkErr(f, src)
    ELSE IF ~Exists(f, src) THEN "NotFound"
    ELSE IF IsDir(f, src) THEN "InvalidInput"
    ELSE "none"

\* fs::copy: open the source, create or truncate the destination, write
CopyErr(f, src, dst) ==
    IF CopyOpenFromErr(f, src) # "none" THEN CopyOpenFromErr(f, src)
    ELSE CreateErr(f, dst)

\* fs::copy that creates the destination and writes nothing
CopyFsCreateOnly(f, src, dst) == CreateFs(f, dst)

CopyFs(f, src, dst) == WriteAllFs(CreateFs(f, dst), dst, f[src].bytes)

(***************************************************************************)
(* Results of the commands: Result<T, String>.                             *)
(***************************************************************************)
Ok(v) == [ok |-> TRUE, val |-> v, msg |-> "", cause |-> "none"]

\* Err(format!("{msg}{cause}")), cause the io::Error
Err(msg, cause) == [ok |-> FALSE, val |-> <<>>, msg |-> msg, cause |-> cause]


(***************************************************************************)
(* The commands, as functions of the filesystem f and their arguments:     *)
(* each gives the result it returns and the filesystem it leaves.          *)
(***************************************************************************)
Images == <<"i", "m", "a", "g", "e", "s">>

DotJson == <<".", "j", "s", "o", "n">>

\* let image_extensions = ["png", "jpg", "jpeg", "gif", "webp", "svg", "bmp"]
ImageExtensions ==
    << <<"p", "n", "g">>, <<"j", "p", "g">>, <<"j", "p", "e", "g">>, <<"g", "i", "f">>,
       <<"w", "e", "b", "p">>, <<"s", "v", "g">>, <<"b", "m", "p">> >>

\* the closure without its is_file test
PresentationEntryAnyKind(f, dir, name) ==
    IF EndsWith(name, DotJson)
    THEN <<[name |-> name, path |-> Join(dir, name), is_dir |-> FALSE]>>
    ELSE <<>>

\* the closure of list_presentations' filter_map, on one directory entry
PresentationEntry(f, dir, name) ==
    IF IsFile(f, Join(dir, name)) /\ EndsWith(name, DotJson)
    THEN <<[name |-> name, path |-> Join(dir, name), is_dir |-> FALSE]>>
    ELSE <<>>

RECURSIVE FilterMapPresentations(_, _, _)
FilterMapPresentations(f, dir, names) ==
    IF names = <<>> THEN <<>>
    ELSE PresentationEntry(f, dir, Head(names))
            \o FilterMapPresentations(f, dir, Tail(names))

\* list_presentations answering an empty listing where the directory fails
ListPresentationsSwallow(f, dir_path, order) ==
    LET mkErr == IF ~Exists(f, dir_path) THEN CreateDirAllErr(f, dir_path) ELSE "none"
        f1 == IF ~Exists(f, dir_path) THEN CreateDirAllFs(f, dir_path) ELSE f
    IN  IF mkErr # "none" THEN [res |-> Ok(<<>>), fs |-> f]
        ELSE IF ReadDirErr(f1, dir_path) # "none"
        THEN [res |-> Ok(<<>>), fs |-> f1]
        ELSE [res |-> Ok(FilterMapPresentations(f1, dir_path, order)), fs |-> f1]

\* list_presentations(dir_path); order is the order read_dir yields
ListPresentations(f, dir_path, order) ==
    LET mkErr == IF ~Exists(f, dir_path) THEN CreateDirAllErr(f, dir_path) ELSE "none"
        f1 == IF ~Exists(f, dir_path) THEN CreateDirAllFs(f, dir_path) ELSE f
    IN  IF mkErr # "none" THEN [res |-> Err("", mkErr), fs |-> f]
        ELSE IF ReadDirErr(f1, dir_path) # "none"
        THEN [res |-> Err("", ReadDirErr(f1, dir_path)), fs |-> f1]
        ELSE [res |-> Ok(FilterMapPresentations(f1, dir_path, order)), fs |-> f1]

\* the orders read_dir may yield when list_presentations(dir_path) runs on f
ListPresentationsOrders(f, dir_path) ==
    LET f1 == IF ~Exists(f, dir_path) THEN CreateDirAllFs(f, dir_path) ELSE f
    IN  Orders(Children(f1, dir_path))

\* read_presentation(path)
ReadPresentation(f, path) ==
    IF ReadErr(f, path) # "none"
    THEN [res |-> Err("Failed to read file: ", ReadErr(f, path)), fs |-> f]
    ELSE [res |-> Ok(Utf8Decode(f[path].bytes)), fs |-> f]

\* save_presentation(path, content)
SavePresentation(f, path, content) ==
    LET mkErr == IF HasParent(path) THEN CreateDirAllErr(f, Parent(path)) ELSE "none"
        f1 == IF HasParent(path) THEN CreateDirAllFs(f, Parent(path)) ELSE f
    IN  IF mkErr # "none" THEN [res |-> Err("", mkErr), fs |-> f]
        ELSE IF WriteErr(f1, path) # "none"
        THEN [res |-> Err("Failed to save file: ", WriteErr(f1, path)), fs |-> f1]
        ELSE [res |-> Ok(<<>>), fs |-> WriteFs(f1, path, Utf8Encode(content))]

\* delete_presentation answering Ok without removing the file
DeletePresentationKeeps(f, path) ==
    IF RemoveFileErr(f, path) # "none"
    THEN [res |-> Err("Failed to delete file: ", RemoveFileErr(f, path)), fs |-> f]
    ELSE [res |-> Ok(<<>>), fs |-> f]

\* delete_presentation(path)
DeletePresentation(f, path) ==
    IF RemoveFileErr(f, path) # "none"
    THEN [res |-> Err("Failed to delete file: ", RemoveFileErr(f, path)), fs |-> f]
    ELSE [res |-> Ok(<<>>), fs |-> RemoveFileFs(f, path)]

\* the next candidate name with the extension forgotten
NextCandidateNoExt(filename, counter) ==
    FileStem(filename) \o <<"-">> \o FormatInt(counter)

\* the body of save_image's while loop: the next candidate name
NextCandidate(filename, counter) ==
    IF Extension(filename) = <<>>
    THEN FileStem(filename) \o <<"-">> \o FormatInt(counter)
    ELSE FileStem(filename) \o <<"-">> \o FormatInt(counter)
            \o <<".">> \o Extension(filename)

\* the loop left out: the source's file name is taken as it is
UniqueNameNoLoop(f, images_dir, filename, dest_filename, counter) == dest_filename

RECURSIVE UniqueNameFrom2(_, _, _, _, _)
\* the loop with its counter started one too high
UniqueNameFrom2(f, images_dir, filename, dest_filename, counter) ==
    IF Exists(f, Join(images_dir, dest_filename))
    THEN UniqueNameFrom2(f, images_dir, filename,
                         NextCandidate(filename, counter + 1), counter + 1)
    ELSE dest_filename

RECURSIVE UniqueName(_, _, _, _, _)
\* save_image's while loop, entered with dest_filename and counter: the
\* dest_filename it leaves with
UniqueName(f, images_dir, filename, dest_filename, counter) ==
    IF Exists(f, Join(images_dir, dest_filename))
    THEN UniqueName(f, images_dir, filename, NextCandidate(filename, counter), counter + 1)
    ELSE dest_filename

\* save_image with the file name checked before the images directory is made
SaveImageCheckFirst(f, storage_dir, source_path) ==
    LET images_dir == Join(storage_dir, Images)
        f1 == CreateDirAllFs(f, images_dir)
        filename == FileName(source_path)
        dest_filename == UniqueName(f1, images_dir, filename, filename, 1)
        dest_path == Join(images_dir, dest_filename)
    IN  IF ~HasFileName(source_path)
        THEN [res |-> Err("Invalid source path", "none"), fs |-> f]
        ELSE IF CreateDirAllErr(f, images_dir) # "none"
        THEN [res |-> Err("", CreateDirAllErr(f, images_dir)), fs |-> f]
        ELSE IF CopyOpenFromErr(f1, source_path) # "none"
        THEN [res |-> Err("Failed to copy image: ", CopyOpenFromErr(f1, source_path)),
              fs |-> f1]
        ELSE [res |-> Ok(dest_filename), fs |-> CopyFs(f1, source_path, dest_path)]

\* save_image(storage_dir, source_path)
SaveImage(f, storage_dir, source_path) ==
    LET images_dir == Join(storage_dir, Images)
        f1 == CreateDirAllFs(f, images_dir)
        filename == FileName(source_path)
        dest_filename == UniqueName(f1, images_dir, filename, filename, 1)
        dest_path == Join(images_dir, dest_filename)
    IN  IF CreateDirAllErr(f, images_dir) # "none"
        THEN [res |-> Err("", CreateDirAllErr(f, images_dir)), fs |-> f]
        ELSE IF ~HasFileName(source_path)
        THEN [res |-> Err("Invalid source path", "none"), fs |-> f1]
        ELSE IF CopyOpenFromErr(f1, source_path) # "none"
        THEN [res |-> Err("Failed to copy image: ", CopyOpenFromErr(f1, source_path)),
              fs |-> f1]
        ELSE IF CreateErr(f1, dest_path) # "none"
        THEN [res |-> Err("Failed to copy image: ", CreateErr(f1, dest_path)), fs |-> f1]
        ELSE [res |-> Ok(dest_filename), fs |-> CopyFs(f1, source_path, dest_path)]

\* the test with the extension compared as it is spelled
IsListedImageCaseSensitive(f, path) ==
    /\ IsFile(f, path)
    /\ Extension(FileName(path)) \in Range(ImageExtensions)

\* the test of list_images' filter_map on one entry
IsListedImage(f, path) ==
    /\ IsFile(f, path)
    /\ ToLowercase(Extension(FileName(path))) \in Range(ImageExtensions)

ImageEntry(f, dir, name) ==
    IF IsListedImage(f, Join(dir, name))
    THEN <<[name |-> name, path |-> Join(dir, name)]>>
    ELSE <<>>

RECURSIVE FilterMapImages(_, _, _)
FilterMapImages(f, dir, names) ==
    IF names = <<>> THEN <<>>
    ELSE ImageEntry(f, dir, Head(names)) \o FilterMapImages(f, dir, Tail(names))

\* list_images answering an absent directory without making it
ListImagesNoCreate(f, storage_dir, order) ==
    LET images_dir == Join(storage_dir, Images)
    IN  IF ~Exists(f, images_dir)
        THEN [res |-> Ok(<<>>), fs |-> f]
        ELSE IF ReadDirErr(f, images_dir) # "none"
        THEN [res |-> Err("", ReadDirErr(f, images_dir)), fs |-> f]
        ELSE [res |-> Ok(FilterMapImages(f, images_dir, order)), fs |-> f]

\* list_images making the absent images directory with File::create
ListImagesCreatesFile(f, storage_dir, order) ==
    LET images_dir == Join(storage_dir, Images)
    IN  IF ~Exists(f, images_dir)
        THEN IF CreateDirAllErr(f, images_dir) # "none"
             THEN [res |-> Err("", CreateDirAllErr(f, images_dir)), fs |-> f]
             ELSE [res |-> Ok(<<>>),
                   fs |-> WriteFs(CreateDirAllFs(f, storage_dir), images_dir, <<>>)]
        ELSE IF ReadDirErr(f, images_dir) # "none"
        THEN [res |-> Err("", ReadDirErr(f, images_dir)), fs |-> f]
        ELSE [res |-> Ok(FilterMapImages(f, images_dir, order)), fs |-> f]

\* list_images(storage_dir); order is the order read_dir yields
ListImages(f, storage_dir, order) ==
    LET images_dir == Join(storage_dir, Images)
    IN  IF ~Exists(f, images_dir)
        THEN IF CreateDirAllErr(f, images_dir) # "none"
             THEN [res |-> Err("", CreateDirAllErr(f, images_dir)), fs |-> f]
             ELSE [res |-> Ok(<<>>), fs |-> CreateDirAllFs(f, images_dir)]
        ELSE IF ReadDirErr(f, images_dir) # "none"
        THEN [res |-> Err("", ReadDirErr(f, images_dir)), fs |-> f]
        ELSE [res |-> Ok(FilterMapImages(f, images_dir, order)), fs |-> f]

ListImagesOrders(f, storage_dir) == Orders(Children(f, Join(storage_dir, Images)))

\* delete_image(image_path)
DeleteImage(f, image_path) ==
    IF RemoveFileErr(f, image_path) # "none"
    THEN [res |-> Err("Failed to delete image: ", RemoveFileErr(f, image_path)), fs |-> f]
    ELSE [res |-> Ok(<<>>), fs |-> RemoveFileFs(f, image_path)]


(***************************************************************************)
(* The inputs the callers draw from, and the filesystems a run starts in.  *)
(***************************************************************************)
R == <<"r">>

S == <<"s">>

U == <<"u">>

D == <<"d">>

NoExt == <<"n">>

XPng == <<"x", ".", "p", "n", "g">>

X1Png == <<"x", "-", "1", ".", "p", "n", "g">>

YPNG == <<"y", ".", "P", "N", "G">>

ZTxt == <<"z", ".", "t", "x", "t">>

QGif == <<"q", ".", "g", "i", "f">>

AJson == <<"a", ".", "j", "s", "o", "n">>

BTxt == <<"b", ".", "t", "x", "t">>

CJson == <<"c", ".", "j", "s", "o", "n">>

EJson == <<"e", ".", "j", "s", "o", "n">>

N1 == <<"n", "-", "1">>

\* the storage roots the host passes: r, and r/s nested in it
Roots == {<<R>>, <<R, S>>}

\* the storage root imports go to
ImportRoots == {<<R, S>>}

ImagesDir(root) == Join(root, Images)

\* the source paths of imports: without a file name (empty, ending in ".."),
\* regular files in u, and a file that does not exist
SourcePaths ==
    {<<>>, <<U, DotDot>>, <<U, XPng>>, <<U, X1Png>>, <<U, YPNG>>, <<U, NoExt>>, <<U, ZTxt>>,
     <<U, QGif>>}

\* the paths delete_image is called with
ImagePaths ==
    {Join(ImagesDir(<<R, S>>), XPng), Join(ImagesDir(<<R, S>>), X1Png),
     Join(ImagesDir(<<R, S>>), NoExt), Join(ImagesDir(<<R>>), XPng),
     Join(ImagesDir(<<R>>), D)}

\* the paths read, save and delete of presentations are called with
DocPaths == {<<AJson>>, <<R, AJson>>, <<R, S, AJson>>, <<R, S>>}

\* the texts saved: empty, and one-, two- and three-byte code points
Texts == {<<>>, <<97, 8364>>, <<233>>}

EmptyFs == [q \in {} |-> DirNode]

WithDir(f, p) == CreateDirAllFs(f, p)

WithFile(f, p, bytes) == WriteFs(CreateDirAllFs(f, Parent(p)), p, bytes)

\* the directory u the imports read from
SourceFs ==
    WithFile(WithFile(WithFile(WithFile(WithFile(EmptyFs,
        <<U, ZTxt>>, <<84>>),
        <<U, XPng>>, <<137, 80>>),
        <<U, X1Png>>, <<137, 78>>),
        <<U, YPNG>>, <<137>>),
        <<U, NoExt>>, <<71, 73, 70>>)

\* r/images holding x.png, y.PNG, z.txt and a subdirectory d
FilterFs ==
    WithDir(WithFile(WithFile(WithFile(SourceFs,
        Join(ImagesDir(<<R>>), XPng), <<1>>),
        Join(ImagesDir(<<R>>), YPNG), <<2>>),
        Join(ImagesDir(<<R>>), ZTxt), <<3>>),
        Join(ImagesDir(<<R>>), D))

\* r/s/images holding x.png, x-1.png and a directory n-1
CollisionFs ==
    WithDir(WithFile(WithFile(SourceFs,
        Join(ImagesDir(<<R, S>>), XPng), <<1>>),
        Join(ImagesDir(<<R, S>>), X1Png), <<4>>),
        Join(ImagesDir(<<R, S>>), N1))

\* r is a regular file
BlockedFs == WithFile(SourceFs, <<R>>, <<5>>)

\* r/s/images holding x.png alone
SingleFs == WithFile(SourceFs, Join(ImagesDir(<<R, S>>), XPng), <<1>>)

ImageWorlds == {SourceFs, FilterFs, CollisionFs, SingleFs, BlockedFs}

\* r holding a.json, b.txt, a directory c.json and the subdirectory s
DocFs ==
    WithDir(WithDir(WithFile(WithFile(EmptyFs,
        <<R, AJson>>, Utf8Encode(<<97>>)),
        <<R, BTxt>>, <<255>>),
        <<R, CJson>>),
        <<R, S>>)

\* r holding the two documents a.json and e.json
TwoDocsFs ==
    WithFile(WithFile(EmptyFs,
        <<R, AJson>>, Utf8Encode(<<97>>)),
        <<R, EJson>>, Utf8Encode(<<233>>))

DocWorlds == {EmptyFs, DocFs, TwoDocsFs, WithFile(EmptyFs, <<R>>, <<5>>)}

\* the documents of DocFs, the images of FilterFs in r/images and x.png in r/s/images
FullFs ==
    WithFile(WithDir(WithFile(WithFile(FilterFs,
        <<R, AJson>>, Utf8Encode(<<97>>)),
        <<R, BTxt>>, <<255>>),
        <<R, CJson>>),
        Join(ImagesDir(<<R, S>>), XPng), <<1>>)

Worlds == {SourceFs, FullFs, BlockedFs}

NoCall ==
    [op |-> "none", path |-> <<>>, source |-> <<>>, content |-> <<>>,
     res |-> Ok(<<>>), pre |-> EmptyFs]

NoProcs == <<>>

V == <<"v">>

\* the two workers the host runs commands on
Procs == {1, 2}

\* the sources of concurrent imports: two files named x.png with different
\* content, and a file of another name
RaceSources == {<<U, XPng>>, <<V, XPng>>, <<U, NoExt>>}

\* SourceFs and a second source directory v holding another x.png
RaceFs == WithFile(SourceFs, <<V, XPng>>, <<66>>)

\* the same with x.png already in r/s/images
RaceTakenFs == WithFile(RaceFs, Join(ImagesDir(<<R, S>>), XPng), <<1>>)

RaceWorlds == {RaceFs, RaceTakenFs}

\* a worker that runs no command
Idle ==
    [pc |-> "idle", storage_dir |-> <<>>, source_path |-> <<>>, filename |-> <<>>,
     dest_filename |-> <<>>, counter |-> 1, raced |-> FALSE, res |-> Ok(<<>>)]

(***************************************************************************)
(* Sequential runs: each command runs to completion before the next.       *)
(* last and prev record the two latest calls (arguments, result, and the   *)
(* filesystem the call began in); hist records the paths imports returned  *)
(* and those among them that a later delete removed; a run makes at most   *)
(* limit calls.                                                            *)
(***************************************************************************)
Call(op, path, source, content, out) ==
    /\ fs' = out.fs
    /\ last' = [op |-> op, path |-> path, source |-> source, content |-> content,
                res |-> out.res, pre |-> fs]
    /\ prev' = last
    /\ steps' = steps + 1
    /\ hist' =
         IF op = "save_image" /\ out.res.ok
         THEN [hist EXCEPT !.returned = @ \cup {Join(ImagesDir(path), out.res.val)}]
         ELSE IF op \in {"delete_image", "delete_presentation"} /\ out.res.ok
         THEN [hist EXCEPT !.freed = @ \cup ({path} \cap hist.returned)]
         ELSE hist
    /\ UNCHANGED <<limit, procs>>

list_presentations ==
    /\ steps < limit
    /\ \E dir_path \in Roots :
         \E order \in ListPresentationsOrders(fs, dir_path) :
            Call("list_presentations", dir_path, <<>>, <<>>,
                 ListPresentations(fs, dir_path, order))

read_presentation ==
    /\ steps < limit
    /\ \E path \in DocPaths :
         Call("read_presentation", path, <<>>, <<>>, ReadPresentation(fs, path))

save_presentation ==
    /\ steps < limit
    /\ \E path \in DocPaths, content \in Texts :
         Call("save_presentation", path, <<>>, content,
              SavePresentation(fs, path, content))

delete_presentation ==
    /\ steps < limit
    /\ \E path \in DocPaths :
         Call("delete_presentation", path, <<>>, <<>>, DeletePresentation(fs, path))

save_image ==
    /\ steps < limit
    /\ \E storage_dir \in ImportRoots, source_path \in SourcePaths :
         Call("save_image", storage_dir, source_path, <<>>,
              SaveImage(fs, storage_dir, source_path))

list_images ==
    /\ steps < limit
    /\ \E storage_dir \in Roots :
         \E order \in ListImagesOrders(fs, storage_dir) :
            Call("list_images", storage_dir, <<>>, <<>>,
                 ListImages(fs, storage_dir, order))

delete_image ==
    /\ steps < limit
    /\ \E image_path \in ImagePaths :
         Call("delete_image", image_path, <<>>, <<>>, DeleteImage(fs, image_path))

InitSeq(worlds, bound) ==
    /\ fs \in worlds
    /\ limit = bound
    /\ last = NoCall
    /\ prev = NoCall
    /\ steps = 0
    /\ hist = [returned |-> {}, freed |-> {}]
    /\ procs = NoProcs

\* the image asset repository
InitImages == InitSeq(ImageWorlds, MaxImageSteps)

NextImages == save_image \/ list_images \/ delete_image

SpecImages == InitImages /\ [][NextImages]_vars

\* the presentation repository
InitDocs == InitSeq(DocWorlds, MaxDocSteps)

NextDocs == list_presentations \/ read_presentation \/ save_presentation \/ delete_presentation

SpecDocs == InitDocs /\ [][NextDocs]_vars

\* the whole program
Init == InitSeq(Worlds, MaxSteps)

Next ==
    \/ list_presentations
    \/ read_presentation
    \/ save_presentation
    \/ delete_presentation
    \/ save_image
    \/ list_images
    \/ delete_image

Spec == Init /\ [][Next]_vars

(***************************************************************************)
(* Concurrent imports: the host runs save_image on two workers at once.    *)
(* A worker takes one step per filesystem access of save_image, in program *)
(* order: create_dir_all (line 85), each exists() test of the loop (line   *)
(* 100), and the two accesses of fs::copy (line 113), opening the          *)
(* destination and writing the source's bytes to it.  raced records that   *)
(* the worker left the loop with a destination another worker had left the *)
(* loop with and not yet opened.                                           *)
(***************************************************************************)
DestPath(w) == Join(ImagesDir(w.storage_dir), w.dest_filename)

RaceFrame == UNCHANGED <<last, prev, steps, limit, hist>>

\* the host dispatches save_image(storage_dir, source_path) to worker i
import_call(i) ==
    /\ procs[i].pc = "idle"
    /\ \E storage_dir \in ImportRoots, source_path \in RaceSources :
         procs' = [procs EXCEPT ![i].pc = "create_dir",
                                ![i].storage_dir = storage_dir,
                                ![i].source_path = source_path]
    /\ UNCHANGED fs
    /\ RaceFrame

\* lines 82-98: create_dir_all, then the file name and the first candidate
import_create_dir(i) ==
    LET w == procs[i]
        images_dir == ImagesDir(w.storage_dir)
    IN  /\ w.pc = "create_dir"
        /\ fs' = CreateDirAllFs(fs, images_dir)
        /\ procs' =
             IF CreateDirAllErr(fs, images_dir) # "none"
             THEN [procs EXCEPT ![i].pc = "done",
                                ![i].res = Err("", CreateDirAllErr(fs, images_dir))]
             ELSE IF ~HasFileName(w.source_path)
             THEN [procs EXCEPT ![i].pc = "done",
                                ![i].res = Err("Invalid source path", "none")]
             ELSE [procs EXCEPT ![i].pc = "probe",
                                ![i].filename = FileName(w.source_path),
                                ![i].dest_filename = FileName(w.source_path),
                                ![i].counter = 1]
        /\ RaceFrame

\* the loop left without testing whether the destination exists
import_probe_untested(i) ==
    LET w == procs[i]
        rivals == {j \in Procs \ {i} :
                      procs[j].pc = "open" /\ DestPath(procs[j]) = DestPath(w)}
    IN  /\ w.pc = "probe"
        /\ procs' = [j \in Procs |->
                     IF j = i THEN [w EXCEPT !.pc = "open", !.raced = rivals # {}]
                     ELSE IF j \in rivals THEN [procs[j] EXCEPT !.raced = TRUE]
                     ELSE procs[j]]
        /\ UNCHANGED fs
        /\ RaceFrame

\* lines 100-110: one test of the loop condition, and the loop body when it holds
import_probe(i) ==
    LET w == procs[i]
        rivals == {j \in Procs \ {i} :
                      procs[j].pc = "open" /\ DestPath(procs[j]) = DestPath(w)}
    IN  /\ w.pc = "probe"
        /\ procs' =
             IF Exists(fs, DestPath(w))
             THEN [procs EXCEPT ![i].dest_filename = NextCandidate(w.filename, w.counter),
                                ![i].counter = w.counter + 1]
             ELSE [j \in Procs |->
                     IF j = i THEN [w EXCEPT !.pc = "open", !.raced = rivals # {}]
                     ELSE IF j \in rivals THEN [procs[j] EXCEPT !.raced = TRUE]
                     ELSE procs[j]]
        /\ UNCHANGED fs
        /\ RaceFrame

\* line 113, fs::copy opening the source and creating or truncating the destination
import_open(i) ==
    LET w == procs[i]
    IN  /\ w.pc = "open"
        /\ IF CopyErr(fs, w.source_path, DestPath(w)) # "none"
           THEN /\ procs' = [procs EXCEPT
                               ![i].pc = "done",
                               ![i].res = Err("Failed to copy image: ",
                                              CopyErr(fs, w.source_path, DestPath(w)))]
                /\ UNCHANGED fs
           ELSE /\ procs' = [procs EXCEPT ![i].pc = "write"]
                /\ fs' = CreateFs(fs, DestPath(w))
        /\ RaceFrame

\* lines 113-115, fs::copy writing the source's bytes, and the return
import_write(i) ==
    LET w == procs[i]
    IN  /\ w.pc = "write"
        /\ fs' = WriteAllFs(fs, DestPath(w), fs[w.source_path].bytes)
        /\ procs' = [procs EXCEPT ![i].pc = "done", ![i].res = Ok(w.dest_filename)]
        /\ RaceFrame

\* last.pre keeps the filesystem the run began in
InitRace ==
    /\ fs \in RaceWorlds
    /\ last = [NoCall EXCEPT !.pre = fs]
    /\ prev = NoCall
    /\ steps = 0
    /\ limit = 0
    /\ hist = [returned |-> {}, freed |-> {}]
    /\ procs = [i \in Procs |-> Idle]

NextRace ==
    \E i \in Procs :
        \/ import_call(i)
        \/ import_create_dir(i)
        \/ import_probe(i)
        \/ import_open(i)
        \/ import_write(i)

SpecRace == InitRace /\ [][NextRace]_vars

(***************************************************************************)
(* Properties of import (save_image) in sequential runs.                   *)
(***************************************************************************)
\* the latest call is an import that succeeded
ImportOk == last.op = "save_image" /\ last.res.ok

\* the images directory of the latest call, and its entries when the call began
LastImagesDir == ImagesDir(last.path)

EntriesBefore == Children(last.pre, LastImagesDir)

\* candidate 0 is F itself, candidate n >= 1 is S-n.E, or S-n when E is empty
Candidate(F, n) ==
    IF n = 0 THEN F
    ELSE IF Extension(F) = <<>>
    THEN FileStem(F) \o <<"-">> \o FormatInt(n)
    ELSE FileStem(F) \o <<"-">> \o FormatInt(n) \o <<".">> \o Extension(F)

\* C1: a successful import of a source named F returns F when the images
\* directory has no entry F, and otherwise S-n.E (S-n when E is empty) for the
\* smallest n >= 1 that names no entry.
C1_CollisionResolution ==
    ImportOk =>
        LET F == FileName(last.source)
        IN  IF F \notin EntriesBefore
            THEN last.res.val = F
            ELSE \E n \in 1..Cardinality(EntriesBefore) :
                    /\ last.res.val = Candidate(F, n)
                    /\ Candidate(F, n) \notin EntriesBefore
                    /\ \A m \in 1..(n - 1) : Candidate(F, m) \in EntriesBefore

\* x.png imported where x.png and x-1.png exist: x-2.png is returned
C1_Witness ==
    /\ ImportOk
    /\ FileName(last.source) = XPng
    /\ {XPng, X1Png} \subseteq EntriesBefore
    /\ last.res.val = <<"x", "-", "2", ".", "p", "n", "g">>

\* C2: after a successful import every path that existed before the call is
\* still there with the same node, and the images directory has gained exactly
\* one entry, a regular file under the returned name.
C2_NoOverwrite ==
    ImportOk =>
        /\ \A q \in DOMAIN last.pre : q \in DOMAIN fs /\ fs[q] = last.pre[q]
        /\ last.res.val \notin EntriesBefore
        /\ Children(fs, LastImagesDir) = EntriesBefore \cup {last.res.val}
        /\ IsFile(fs, Join(LastImagesDir, last.res.val))
        /\ (DOMAIN fs) \ (DOMAIN last.pre)
              \subseteq {Join(LastImagesDir, last.res.val)} \cup Prefixes(LastImagesDir)

\* an import whose file name was taken, next to an entry that is a directory
C2_Witness ==
    /\ ImportOk
    /\ FileName(last.source) \in EntriesBefore
    /\ \E n \in EntriesBefore : IsDir(last.pre, Join(LastImagesDir, n))

\* C3 as stated: a successful import never returns a name that an earlier
\* import returned and that was deleted since.
C3_NeverReusesFreedName ==
    ImportOk => Join(LastImagesDir, last.res.val) \notin hist.freed

\* the latest call is a successful import of F, straight after a successful
\* delete_image of candidate k of F in the same images directory
ImportAfterFreeing(k) ==
    /\ ImportOk
    /\ prev.op = "delete_image"
    /\ prev.res.ok
    /\ prev.path = Join(LastImagesDir, Candidate(FileName(last.source), k))

\* C3 amended: import fills gaps. It returns a name that no entry has when it
\* is called, and when the call before it deleted candidate k of its file name
\* it returns that candidate or an earlier one.
C3_FillsGaps ==
    /\ ImportOk => last.res.val \notin EntriesBefore
    /\ \A k \in 0..Cardinality(DOMAIN fs) :
          ImportAfterFreeing(k) =>
             \E j \in 0..k : last.res.val = Candidate(FileName(last.source), j)

\* an import returns x-1.png again after the x-1.png an earlier import had
\* returned was deleted
C3_Witness ==
    /\ ImportAfterFreeing(1)
    /\ last.res.val = X1Png
    /\ prev.path \in hist.freed

\* the latest call is an import whose source path has no file name
ImportNoFileName == last.op = "save_image" /\ ~HasFileName(last.source)

\* C5 as stated: such an import fails with "Invalid source path" and leaves
\* the images directory as it was, whatever the state of the storage root.
C5_InvalidSourceUnchanged ==
    ImportNoFileName =>
        /\ ~last.res.ok
        /\ last.res.msg = "Invalid source path"
        /\ fs = last.pre

\* no regular file stands where the images directory or an ancestor should be
ImagesDirCreatable == \A q \in Prefixes(LastImagesDir) : ~IsFile(last.pre, q)

\* C5 amended: such an import fails, with "Invalid source path" when the
\* images directory exists or can be made and with the error of making it
\* otherwise; every path that existed is unchanged and no file is added, but
\* the images directory and its missing ancestors are made first.
C5_InvalidSourceMakesDir ==
    ImportNoFileName =>
        /\ ~last.res.ok
        /\ \A q \in DOMAIN last.pre : q \in DOMAIN fs /\ fs[q] = last.pre[q]
        /\ \A q \in (DOMAIN fs) \ (DOMAIN last.pre) : IsDir(fs, q)
        /\ IF ImagesDirCreatable
           THEN /\ last.res.msg = "Invalid source path"
                /\ DOMAIN fs = DOMAIN last.pre \cup Prefixes(LastImagesDir)
           ELSE /\ last.res.msg = ""
                /\ last.res.cause \in {"NotADirectory", "AlreadyExists"}
                /\ fs = last.pre

\* the empty source path, with no images directory before the call
C5_Witness ==
    /\ ImportNoFileName
    /\ last.source = <<>>
    /\ ~Exists(last.pre, LastImagesDir)
    /\ IsDir(fs, LastImagesDir)
    /\ last.res.msg = "Invalid source path"

(***************************************************************************)
(* Properties of the presentation repository and of the listings.          *)
(***************************************************************************)
\* the text a file holds, when its bytes are that text's UTF-8 form
HoldsText(f, p, text) ==
    /\ IsFile(f, p)
    /\ ValidUtf8(f[p].bytes)
    /\ Utf8Decode(f[p].bytes) = text

\* the latest two calls are a successful save_presentation and then op, on one path
SaveThen(op) ==
    /\ prev.op = "save_presentation"
    /\ prev.res.ok
    /\ last.op = op
    /\ last.path = prev.path

\* C6: a successful save(p, c) immediately followed by read(p) returns exactly c.
C6_RoundTrip ==
    SaveThen("read_presentation") => last.res.ok /\ last.res.val = prev.content

\* the round trip of a text with a three-byte code point
C6_Witness ==
    /\ SaveThen("read_presentation")
    /\ prev.content = <<97, 8364>>
    /\ last.res.val = <<97, 8364>>

\* no regular file stands where the parent of p or an ancestor of it should be
ParentCreatable(f, p) == \A q \in Prefixes(Parent(p)) : ~IsFile(f, q)

\* C7: save(p, c1) followed by save(p, c2) leaves p holding exactly c2, and
\* save(p, c) succeeds and makes the missing ancestors when the parent
\* directory of p does not exist.
C7_SaveOverwritesAndProvisions ==
    /\ SaveThen("save_presentation") =>
          last.res.ok /\ HoldsText(fs, last.path, last.content)
    /\ ( /\ last.op = "save_presentation"
         /\ Parent(last.path) # <<>>
         /\ ~Exists(last.pre, Parent(last.path))
         /\ ParentCreatable(last.pre, last.path) ) =>
          /\ last.res.ok
          /\ \A q \in Prefixes(Parent(last.path)) : IsDir(fs, q)
          /\ HoldsText(fs, last.path, last.content)

\* a longer text overwritten by a shorter one, the first save having made
\* the two missing ancestors of the path
C7_Witness ==
    /\ SaveThen("save_presentation")
    /\ Len(Utf8Encode(prev.content)) > Len(Utf8Encode(last.content))
    /\ Len(last.path) = 3
    /\ \A q \in Prefixes(Parent(last.path)) : ~Exists(prev.pre, q)
    /\ fs[last.path].bytes = Utf8Encode(last.content)

\* name ends with ".json"
EndsInDotJson(name) ==
    /\ Len(name) >= 5
    /\ \A i \in 1..5 : name[Len(name) - 5 + i] = DotJson[i]

\* the names of the entries a listing returned
EntryNames(entries) == {entries[i].name : i \in 1..Len(entries)}

\* C8: list presentations returns exactly one entry for each direct child of
\* the root that is a regular file whose name ends with .json, and none for a
\* subdirectory or another file; each entry has isDir false, a name ending in
\* .json and a path whose final component is the name.
C8_ListPresentationsFilter ==
    last.op = "list_presentations" =>
        /\ IsDir(last.pre, last.path) => last.res.ok
        /\ last.res.ok =>
              /\ EntryNames(last.res.val) =
                    {n \in Children(fs, last.path) :
                        IsFile(fs, Join(last.path, n)) /\ EndsInDotJson(n)}
              /\ Len(last.res.val) = Cardinality(EntryNames(last.res.val))
              /\ \A i \in 1..Len(last.res.val) :
                    /\ last.res.val[i].is_dir = FALSE
                    /\ EndsInDotJson(last.res.val[i].name)
                    /\ last.res.val[i].path = Join(last.path, last.res.val[i].name)

\* a root holding a.json, b.txt, a directory c.json and a subdirectory s:
\* one entry, a.json
C8_Witness ==
    /\ last.op = "list_presentations"
    /\ last.res.ok
    /\ {AJson, BTxt, CJson, S} \subseteq Children(fs, last.path)
    /\ IsDir(fs, Join(last.path, CJson))
    /\ EntryNames(last.res.val) = {AJson}

UpperOf(c) ==
    IF \E i \in 1..Len(LowerLetters) : LowerLetters[i] = c
    THEN UpperLetters[CHOOSE i \in 1..Len(LowerLetters) : LowerLetters[i] = c]
    ELSE c

\* the extension of name is ext in some mix of upper and lower case
HasExtensionIgnoringCase(name, ext) ==
    /\ HasExtension(name)
    /\ Len(Extension(name)) = Len(ext)
    /\ \A i \in 1..Len(ext) : Extension(name)[i] \in {ext[i], UpperOf(ext[i])}

AllowList ==
    { <<"p", "n", "g">>, <<"j", "p", "g">>, <<"j", "p", "e", "g">>, <<"g", "i", "f">>,
      <<"w", "e", "b", "p">>, <<"s", "v", "g">>, <<"b", "m", "p">> }

\* C9: where the images directory exists, list images returns exactly the
\* direct children of storageDir/images that are regular files whose
\* extension, lower-cased, is in the allow-list, and nothing else.
C9_ListImagesFilter ==
    (last.op = "list_images" /\ IsDir(last.pre, LastImagesDir)) =>
        /\ last.res.ok
        /\ EntryNames(last.res.val) =
              {n \in Children(last.pre, LastImagesDir) :
                  /\ IsFile(last.pre, Join(LastImagesDir, n))
                  /\ \E ext \in AllowList : HasExtensionIgnoringCase(n, ext)}
        /\ Len(last.res.val) = Cardinality(EntryNames(last.res.val))
        /\ \A i \in 1..Len(last.res.val) :
              last.res.val[i].path = Join(LastImagesDir, last.res.val[i].name)

\* an images directory holding x.png, y.PNG, z.txt and a subdirectory:
\* x.png and y.PNG are returned
C9_Witness ==
    /\ last.op = "list_images"
    /\ last.res.ok
    /\ Children(last.pre, LastImagesDir) = {XPng, YPNG, ZTxt, D}
    /\ EntryNames(last.res.val) = {XPng, YPNG}

\* the directory a listing call lists
ListedDir(call) == IF call.op = "list_images" THEN ImagesDir(call.path) ELSE call.path

\* the latest two calls are the same listing of the same root, which did not
\* exist before the first of them and had no regular file among its ancestors
ListedTwiceFresh ==
    /\ last.op \in {"list_presentations", "list_images"}
    /\ prev.op = last.op
    /\ prev.path = last.path
    /\ ~Exists(prev.pre, prev.path)
    /\ \A q \in Prefixes(prev.path) : ~IsFile(prev.pre, q)

\* C10: listing twice in a row a fresh root that does not exist yet succeeds
\* both times with an empty sequence, and after the first call the listed
\* directory exists.
C10_IdempotentBootstrap ==
    ListedTwiceFresh =>
        /\ prev.res.ok /\ prev.res.val = <<>>
        /\ last.res.ok /\ last.res.val = <<>>
        /\ IsDir(last.pre, ListedDir(last))
        /\ IsDir(fs, ListedDir(last))

\* list images twice on r/s when not even r exists
C10_Witness ==
    /\ ListedTwiceFresh
    /\ last.op = "list_images"
    /\ Len(last.path) = 2
    /\ ~Exists(prev.pre, <<R>>)
    /\ last.res.ok

\* list presentations twice on a fresh root
C10_WitnessPresentations ==
    /\ ListedTwiceFresh
    /\ last.op = "list_presentations"
    /\ last.res.ok

(***************************************************************************)
(* Properties of concurrent imports.                                       *)
(***************************************************************************)
\* both workers have returned, after leaving the loop with the same
\* destination before either had opened it
RaceOver == \A i \in Procs : procs[i].pc = "done" /\ procs[i].raced

SourceBytes(i) == fs[procs[i].source_path].bytes

\* C4: nothing locks the existence check against the copy. Two concurrent
\* imports of the same file name into one images directory can both leave the
\* loop with the same destination before either copies; then both return
\* that same name without an error, the directory gains a single entry, and
\* the entry holds one source's bytes, or one source's bytes written over the
\* start of the other's.
C4_RaceSameDestination ==
    RaceOver =>
        /\ \A i \in Procs : procs[i].res.ok
        /\ procs[1].res.val = procs[2].res.val
        /\ DestPath(procs[1]) = DestPath(procs[2])
        /\ Children(fs, ImagesDir(procs[1].storage_dir))
              = Children(last.pre, ImagesDir(procs[1].storage_dir)) \cup {procs[1].res.val}
        /\ procs[1].res.val \notin Children(last.pre, ImagesDir(procs[1].storage_dir))
        /\ fs[DestPath(procs[1])].bytes
              \in {SourceBytes(1), SourceBytes(2),
                   Overlay(SourceBytes(1), SourceBytes(2)),
                   Overlay(SourceBytes(2), SourceBytes(1))}

\* the two imports of x.png from u and from v raced, both returned x.png, and
\* only the copy from v is there
C4_Witness ==
    /\ RaceOver
    /\ procs[1].source_path = <<U, XPng>>
    /\ procs[2].source_path = <<V, XPng>>
    /\ procs[1].res.val = XPng
    /\ procs[2].res.val = XPng
    /\ fs[DestPath(procs[1])].bytes = SourceBytes(2)
    /\ SourceBytes(1) # SourceBytes(2)

(***************************************************************************)
(* Properties of delete.                                                   *)
(***************************************************************************)
\* the latest two calls are a successful delete_presentation of a path and a
\* list_presentations of that path's parent directory
DeleteThenList ==
    /\ prev.op = "delete_presentation"
    /\ prev.res.ok
    /\ last.op = "list_presentations"
    /\ last.path = Parent(prev.path)

\* the names list presentations shows for directory dir of filesystem f
ListedDocs(f, dir) ==
    {n \in Children(f, dir) : IsFile(f, Join(dir, n)) /\ EndsInDotJson(n)}

\* C11: after a successful delete of the presentation at p, listing p's
\* parent directory returns no entry named as p's file name, and every other
\* entry that was listed before the delete is still listed.
C11_DeleteThenList ==
    DeleteThenList =>
        /\ last.res.ok
        /\ FileName(prev.path) \notin EntryNames(last.res.val)
        /\ ListedDocs(prev.pre, last.path) \ {FileName(prev.path)}
              \subseteq EntryNames(last.res.val)

\* a.json deleted from a directory that also holds e.json: e.json alone is listed
C11_Witness ==
    /\ DeleteThenList
    /\ FileName(prev.path) = AJson
    /\ ListedDocs(prev.pre, last.path) = {AJson, EJson}
    /\ EntryNames(last.res.val) = {EJson}

\* the latest call is a delete of a path at which nothing exists
DeleteOfMissing ==
    /\ last.op \in {"delete_presentation", "delete_image"}
    /\ ~Exists(last.pre, last.path)

\* a regular file stands where the path needs a directory
FileAmongAncestors(f, p) == \E q \in Prefixes(p) \ {p} : IsFile(f, q)

SourceContent(c) == c.pre[c.source].bytes

\* the latest two calls are successful imports into the same storage root of
\* sources with the same file name and the same bytes
ImportedTwice ==
    /\ prev.op = "save_image" /\ prev.res.ok
    /\ last.op = "save_image" /\ last.res.ok
    /\ prev.path = last.path
    /\ FileName(prev.source) = FileName(last.source)
    /\ SourceContent(prev) = SourceContent(last)

\* C13: two successive successful imports of sources with the same file name
\* and byte-identical content return two different names, and afterwards both
\* names exist as separate regular files that each hold the source's content.
C13_NoDeduplication ==
    ImportedTwice =>
        /\ prev.res.val # last.res.val
        /\ \A d \in {prev.res.val, last.res.val} :
              /\ IsFile(fs, Join(LastImagesDir, d))
              /\ fs[Join(LastImagesDir, d)].bytes = SourceContent(last)

\* x.png imported twice into a root without images: x.png and x-1.png, same bytes
C13_Witness ==
    /\ ImportedTwice
    /\ prev.res.val = XPng
    /\ last.res.val = X1Png
    /\ fs[Join(LastImagesDir, XPng)].bytes = <<137, 80>>
    /\ fs[Join(LastImagesDir, X1Png)].bytes = <<137, 80>>

\* d is one path component: not empty, no separator, not . or ..
BareFileName(d) ==
    /\ d # <<>>
    /\ "/" \notin Range(d)
    /\ d \notin {<<".">>, DotDot}

\* C14: after a successful sequential import returning d, d is a bare file
\* name and not a path, the file storageDir/images/d exists, and its content
\* equals the content of the source file.
C14_ImportPostcondition ==
    ImportOk =>
        /\ BareFileName(last.res.val)
        /\ last.res.val \in Children(fs, LastImagesDir)
        /\ IsFile(fs, Join(LastImagesDir, last.res.val))
        /\ fs[Join(LastImagesDir, last.res.val)].bytes = SourceContent(last)

\* u/n imported next to the directory n-1: returned as n, holding the source's bytes
C14_Witness ==
    /\ ImportOk
    /\ last.source = <<U, NoExt>>
    /\ last.res.val = NoExt
    /\ IsDir(fs, Join(LastImagesDir, N1))
    /\ fs[Join(LastImagesDir, NoExt)] = FileNode(<<71, 73, 70>>)

(***************************************************************************)
(* Properties of the directory bootstrap.                                  *)
(***************************************************************************)
\* the directory call c needs: the one it lists, or the parent of the file it saves
NeededDir(c) == IF c.op = "save_presentation" THEN Parent(c.path) ELSE ListedDir(c)

\* call c is one of the three bootstrapping commands and the directory it
\* needs is a regular file or lies below one
Blocked(c) ==
    /\ c.op \in {"list_presentations", "list_images", "save_presentation"}
    /\ \E q \in Prefixes(NeededDir(c)) : IsFile(c.pre, q)

\* C15: when the needed directory cannot be created or enumerated because it,
\* or one of its ancestors, is a regular file, list presentations, list images
\* and save each return an error value, never an empty sequence or success,
\* and nothing is changed.
C15_BootstrapFailurePropagates ==
    Blocked(last) =>
        /\ ~last.res.ok
        /\ last.res.cause \in {"NotADirectory", "AlreadyExists"}
        /\ fs = last.pre

\* with r a regular file: listing r/s fails, then listing the images of r fails
C15_Witness ==
    /\ Blocked(prev) /\ Blocked(last)
    /\ prev.op = "list_presentations" /\ prev.path = <<R, S>>
    /\ last.op = "list_images" /\ last.path = <<R>>
    /\ IsFile(fs, <<R>>)
    /\ ~prev.res.ok /\ ~last.res.ok

\* with r a regular file: saving r/a.json fails
C15_WitnessSave ==
    /\ Blocked(last)
    /\ last.op = "save_presentation" /\ last.path = <<R, AJson>>
    /\ ~last.res.ok

(***************************************************************************)
(* Further properties of concurrent imports.                               *)
(***************************************************************************)
\* the regular files of the images directories when the imports began
FilesBeforeImports ==
    {q \in DOMAIN last.pre :
        /\ IsFile(last.pre, q)
        /\ \E root \in ImportRoots : Len(q) > 1 /\ Front(q) = ImagesDir(root)}

\* C16: under every interleaving of concurrent imports, with no delete, a file
\* that existed in the images directory before all those imports began is
\* never overwritten: at every step it is there with the bytes it had.
C16_RaceSparesOldFiles ==
    \A q \in FilesBeforeImports : q \in DOMAIN fs /\ fs[q] = last.pre[q]

\* next to the old x.png two imports of x.png raced to x-1.png; x.png is as it was
C16_Witness ==
    /\ RaceOver
    /\ Join(ImagesDir(<<R, S>>), XPng) \in FilesBeforeImports
    /\ \A i \in Procs : procs[i].res.ok /\ procs[i].res.val = X1Png
    /\ fs[Join(ImagesDir(<<R, S>>), XPng)] = FileNode(<<1>>)
    /\ SourceBytes(1) # SourceBytes(2)

\* the latest two calls are a successful import and a list images of the
\* same storage root
ImportThenList ==
    /\ prev.op = "save_image" /\ prev.res.ok
    /\ last.op = "list_images"
    /\ last.path = prev.path

\* the extension of the import's source, lower-cased, is in the allow-list
SourceExtensionAllowed ==
    \E ext \in AllowList : HasExtensionIgnoringCase(FileName(prev.source), ext)

\* C17: import does not look at the allow-list. After a successful import
\* returning d, the next list images on the same storage root has an entry
\* named d exactly when the source's extension, lower-cased, is in the
\* allow-list; a source with another or no extension is stored all the same
\* but not listed.
C17_StoredButListedByExtension ==
    ImportThenList =>
        /\ IsFile(last.pre, Join(LastImagesDir, prev.res.val))
        /\ last.res.ok
        /\ (prev.res.val \in EntryNames(last.res.val)) <=> SourceExtensionAllowed

\* z.txt imported next to x.png: stored as z.txt, and the listing shows x.png only
C17_Witness ==
    /\ ImportThenList
    /\ prev.source = <<U, ZTxt>>
    /\ prev.res.val = ZTxt
    /\ IsFile(fs, Join(LastImagesDir, ZTxt))
    /\ ~SourceExtensionAllowed
    /\ EntryNames(last.res.val) = {XPng}

\* y.PNG imported: stored and listed under that name
C17_WitnessListed ==
    /\ ImportThenList
    /\ prev.res.val = YPNG
    /\ SourceExtensionAllowed
    /\ YPNG \in EntryNames(last.res.val)

\* the suffixes the collision search may end on when the images directory
\* had k entries as the call began: 0 stands for F itself
Suffixes(k) == 0..k

\* C18: the sequential collision search always ends, and it ends on a suffix n
\* that is at most the number of entries the images directory had when the
\* call began: with k entries at most the k + 1 candidates F, S-1.E, ...,
\* S-k.E are tested.
C18_BoundedSearch ==
    ImportOk =>
        \E n \in Suffixes(Cardinality(EntriesBefore)) :
            /\ last.res.val = Candidate(FileName(last.source), n)
            /\ \A m \in 0..(n - 1) :
                  Candidate(FileName(last.source), m) \in EntriesBefore

\* the bound is met: with x.png and x-1.png the only entries, x.png comes back as x-2.png
C18_Witness ==
    /\ ImportOk
    /\ EntriesBefore = {XPng, X1Png}
    /\ last.res.val = Candidate(XPng, 2)
    /\ prev.op = "save_image"
    /\ prev.res.val = X1Png

(***************************************************************************)
(* Properties of the listings as filesystem operations.                    *)
(***************************************************************************)
\* the latest call is one of the two listings
Listed == last.op \in {"list_presentations", "list_images"}

\* C19: a listing is read-only with respect to files. List presentations and
\* list images never create, delete or change a regular file; their only
\* effect on the filesystem is to create the listed directory, where it is
\* missing, with its missing ancestors.
C19_ListingReadOnly ==
    Listed =>
        /\ \A q \in DOMAIN last.pre : q \in DOMAIN fs /\ fs[q] = last.pre[q]
        /\ \A q \in DOMAIN fs \ DOMAIN last.pre :
              /\ fs[q] = DirNode
              /\ q \in Prefixes(ListedDir(last))
              /\ ~Exists(last.pre, ListedDir(last))
              /\ IsDir(fs, ListedDir(last))

\* list images on r/s of a filesystem with files but no r: r, r/s and
\* r/s/images appear, all directories, and every file is as it was
C19_Witness ==
    /\ Listed
    /\ last.op = "list_images"
    /\ last.path = <<R, S>>
    /\ DOMAIN fs \ DOMAIN last.pre = {<<R>>, <<R, S>>, <<R, S, Images>>}
    /\ \E q \in DOMAIN last.pre : IsFile(last.pre, q) /\ fs[q] = last.pre[q]

\* list presentations on a directory holding files: nothing changes
C19_WitnessUnchanged ==
    /\ Listed
    /\ last.op = "list_presentations"
    /\ last.res.ok
    /\ last.res.val # <<>>
    /\ fs = last.pre

=============================================================================
